---- MODULE Spec2Model ----
(***************************************************************************)
(* Status widget of the arionaryabhatta shield (ZMK / LVGL).               *)
(*                                                                         *)
(* Three variants of the widget exist in the sources:                      *)
(*   "singleton" : arionaryabhatta_widget.c, file-scope label handles,     *)
(*                 an is_connected flag, a USB event listener and a        *)
(*                 self re-arming one-second work item;                    *)
(*   "instance"  : unnamed/part_000 lines 1-149, handles held in           *)
(*                 struct zmk_widget_status, an empty work handler;        *)
(*   "screen"    : unnamed/part_000 lines 151-286, handles held in         *)
(*                 struct status_state, no timer and no listener.          *)
(*                                                                         *)
(* LVGL labels are modelled by lv_text, the sequence of the texts of the   *)
(* labels created so far; a handle is the index of its label, NULL is 0.   *)
(* A text is a sequence of characters; an LVGL symbol is one character.    *)
(*                                                                         *)
(* Everything runs on the host's single cooperative context, so a handler  *)
(* is one step.  The host builds the status screen once.  k_uptime_get()   *)
(* is never negative; the sampled uptimes stay below 2^31 ms.              *)
(***************************************************************************)
EXTENDS Integers, Sequences, FiniteSets

VARIABLES
    variant,          \* which of the three source variants is built
    connection_icon,  \* lv_obj_t *connection_icon
    time_label,       \* lv_obj_t *time_label
    date_label,       \* lv_obj_t *date_label
    battery_icon,     \* lv_obj_t *battery_icon
    is_connected,     \* static bool is_connected (singleton variant)
    lv_text,          \* texts of the LVGL labels, indexed by handle
    time_update_work, \* state of the delayable work item
    usb_powered,      \* what zmk_usb_is_powered() returns
    ble_connected,    \* what zmk_ble_active_profile_is_connected() returns
    battery_soc,      \* what zmk_battery_state_of_charge() returns
    uptime_ms,        \* what k_uptime_get() returns
    last_op,          \* the operation that ran last (history)
    repeats           \* 1 when the refresh that ran last repeated the one
                      \* before it with nothing in between, else 0 (history)

vars == <<variant, connection_icon, time_label, date_label, battery_icon,
          is_connected, lv_text, time_update_work, usb_powered,
          ble_connected, battery_soc, uptime_ms, last_op, repeats>>

widget_vars == <<connection_icon, time_label, date_label, battery_icon,
                 is_connected, lv_text>>

env_vars == <<usb_powered, ble_connected, battery_soc, uptime_ms>>

----------------------------------------------------------------------------
(* Bounds of the model *)

\* uptime samples cover the days 0..MaxDays since boot
MaxDays == 1

----------------------------------------------------------------------------
(* Program constants *)

NULL == 0

UINT8_MAX == 255

SECONDS_PER_DAY == 86400

SECONDS_PER_HOUR == 3600

SECONDS_PER_MINUTE == 60

HOURS_PER_DAY == 24

MS_PER_SECOND == 1000

TIME_STR_SIZE == 6

WIFI_ICON == <<"LV_SYMBOL_WIFI">>

NO_WIFI_ICON == <<" ", " ">>

LV_SYMBOL_BATTERY_FULL == <<"LV_SYMBOL_BATTERY_FULL">>

LV_SYMBOL_BATTERY_3 == <<"LV_SYMBOL_BATTERY_3">>

LV_SYMBOL_BATTERY_2 == <<"LV_SYMBOL_BATTERY_2">>

LV_SYMBOL_BATTERY_1 == <<"LV_SYMBOL_BATTERY_1">>

LV_SYMBOL_BATTERY_EMPTY == <<"LV_SYMBOL_BATTERY_EMPTY">>

DATE_TEXT == <<"2", "7", "/", "1", "0", "/", "2", "0", "2", "5">>

TIME_PLACEHOLDER == <<"2", "0", ":", "2", "0">>

----------------------------------------------------------------------------
(* C arithmetic and formatting *)

Abs(a) == IF a < 0 THEN -a ELSE a

\* C integer division truncates toward zero
CDiv(a, b) == IF (a < 0) = (b < 0) THEN Abs(a) \div Abs(b) ELSE -(Abs(a) \div Abs(b))

CMod(a, b) == a - b * CDiv(a, b)

Digit(d) == <<"0", "1", "2", "3", "4", "5", "6", "7", "8", "9">>[d + 1]

RECURSIVE DecDigits(_)
DecDigits(n) == IF n < 10 THEN <<Digit(n)>>
                ELSE DecDigits(n \div 10) \o <<Digit(n % 10)>>

\* printf conversion %02d: minimum width 2, padded with zeros after the sign
Fmt02d(v) ==
    LET body == IF v < 0 THEN <<"-">> \o DecDigits(-v) ELSE DecDigits(v)
    IN  IF Len(body) >= 2 THEN body ELSE <<"0">> \o body

\* snprintf(buf, size, ...): at most size - 1 characters are stored
snprintf(size, s) == SubSeq(s, 1, IF Len(s) < size - 1 THEN Len(s) ELSE size - 1)

\* assignment of a value to a uint8_t
ToUint8(v) == v % (UINT8_MAX + 1)

----------------------------------------------------------------------------
(* LVGL labels *)

\* lv_label_create: a new label, its handle is its index
lv_label_create(texts) == Append(texts, <<>>)

\* lv_label_set_text(obj, text)
lv_label_set_text(texts, obj, text) == [texts EXCEPT ![obj] = text]

----------------------------------------------------------------------------
(* The widget's globals as one value, so that the functions of the source  *)
(* compose: each takes the globals and returns the globals it leaves.      *)

Globals ==
    [connection_icon |-> connection_icon, time_label |-> time_label,
     date_label |-> date_label, battery_icon |-> battery_icon,
     is_connected |-> is_connected, lv_text |-> lv_text]

Commit(g) ==
    /\ connection_icon' = g.connection_icon
    /\ time_label' = g.time_label
    /\ date_label' = g.date_label
    /\ battery_icon' = g.battery_icon
    /\ is_connected' = g.is_connected
    /\ lv_text' = g.lv_text

SetText(g, obj, text) == [g EXCEPT !.lv_text = lv_label_set_text(@, obj, text)]

----------------------------------------------------------------------------
(* Classification and formatting, identical in the three variants          *)

\* the chain with >= where the source has >
battery_glyph_ge(battery_level) ==
    IF battery_level >= 80 THEN LV_SYMBOL_BATTERY_FULL
    ELSE IF battery_level >= 60 THEN LV_SYMBOL_BATTERY_3
    ELSE IF battery_level >= 40 THEN LV_SYMBOL_BATTERY_2
    ELSE IF battery_level >= 20 THEN LV_SYMBOL_BATTERY_1
    ELSE LV_SYMBOL_BATTERY_EMPTY

\* the glyph chosen by the if / else-if chain on battery_level
battery_glyph(battery_level) ==
    IF battery_level > 80 THEN LV_SYMBOL_BATTERY_FULL
    ELSE IF battery_level > 60 THEN LV_SYMBOL_BATTERY_3
    ELSE IF battery_level > 40 THEN LV_SYMBOL_BATTERY_2
    ELSE IF battery_level > 20 THEN LV_SYMBOL_BATTERY_1
    ELSE LV_SYMBOL_BATTERY_EMPTY

\* assignment of a value to an int8_t
ToInt8(v) == LET u == v % (UINT8_MAX + 1) IN IF u > 127 THEN u - (UINT8_MAX + 1) ELSE u

\* the level held in an int8_t where the source has a uint8_t
battery_level_int8(soc) == ToInt8(soc)

\* uint8_t battery_level = zmk_battery_state_of_charge();

battery_level(soc) == ToUint8(soc)

\* int total_seconds = (uptime_ms / 1000) % 86400;
total_seconds(uptime) == CMod(CDiv(uptime, MS_PER_SECOND), SECONDS_PER_DAY)

\* int hours = (total_seconds / 3600) % 24;
hours(uptime) == CMod(CDiv(total_seconds(uptime), SECONDS_PER_HOUR), HOURS_PER_DAY)

\* int minutes = (total_seconds % 3600) / 60;
minutes(uptime) == CDiv(CMod(total_seconds(uptime), SECONDS_PER_HOUR), SECONDS_PER_MINUTE)

\* printf conversion %2d: minimum width 2, padded with spaces
Fmt2d(v) ==
    LET body == IF v < 0 THEN <<"-">> \o DecDigits(-v) ELSE DecDigits(v)
    IN  IF Len(body) >= 2 THEN body ELSE <<" ">> \o body

\* the format "%2d:%02d" where the source has "%02d:%02d"
time_str_unpadded(uptime) ==
    snprintf(TIME_STR_SIZE, Fmt2d(hours(uptime)) \o <<":">> \o Fmt02d(minutes(uptime)))

\* snprintf(time_str, sizeof(time_str), "%02d:%02d", hours, minutes);
time_str(uptime) ==
    snprintf(TIME_STR_SIZE, Fmt02d(hours(uptime)) \o <<":">> \o Fmt02d(minutes(uptime)))

----------------------------------------------------------------------------
(* Variant "singleton": arionaryabhatta_widget.c                            *)

\* the connection refresh with the else-if on BLE lost
update_connection_icon_usb_only(g, usb, ble) ==
    IF g.connection_icon = NULL THEN g
    ELSE IF usb
         THEN [SetText(g, g.connection_icon, WIFI_ICON) EXCEPT !.is_connected = TRUE]
         ELSE [SetText(g, g.connection_icon, NO_WIFI_ICON) EXCEPT !.is_connected = FALSE]

\* the connection refresh with the NULL guard placed after the flag update
update_connection_icon_late_guard(g, usb, ble) ==
    LET c == usb \/ ble
    IN  IF g.connection_icon = NULL THEN [g EXCEPT !.is_connected = c]
        ELSE [SetText(g, g.connection_icon, IF c THEN WIFI_ICON ELSE NO_WIFI_ICON)
                EXCEPT !.is_connected = c]

\* the connection refresh toggling the flag instead of setting it
update_connection_icon_toggle(g, usb, ble) ==
    IF g.connection_icon = NULL THEN g
    ELSE IF usb \/ ble
         THEN [SetText(g, g.connection_icon, WIFI_ICON) EXCEPT !.is_connected = ~@]
         ELSE [SetText(g, g.connection_icon, NO_WIFI_ICON) EXCEPT !.is_connected = FALSE]

update_connection_icon(g, usb, ble) ==
    IF g.connection_icon = NULL THEN g
    ELSE IF usb
         THEN [SetText(g, g.connection_icon, WIFI_ICON) EXCEPT !.is_connected = TRUE]
    ELSE IF ble
         THEN [SetText(g, g.connection_icon, WIFI_ICON) EXCEPT !.is_connected = TRUE]
    ELSE [SetText(g, g.connection_icon, NO_WIFI_ICON) EXCEPT !.is_connected = FALSE]

update_time_display(g, uptime) ==
    IF g.time_label = NULL THEN g
    ELSE SetText(g, g.time_label, time_str(uptime))

update_date_display(g) ==
    IF g.date_label = NULL THEN g
    ELSE SetText(g, g.date_label, DATE_TEXT)

\* the battery refresh writing through the wrong handle
update_battery_icon_wrong_label(g, soc) ==
    IF g.battery_icon = NULL THEN g
    ELSE SetText(g, g.connection_icon, battery_glyph(battery_level(soc)))

update_battery_icon(g, soc) ==
    IF g.battery_icon = NULL THEN g
    ELSE SetText(g, g.battery_icon, battery_glyph(battery_level(soc)))

\* k_work_schedule: a work item already pending is left as it is
k_work_schedule(work) ==
    IF work \in {"scheduled", "queued"} THEN work ELSE "scheduled"

widget_battery_status_update_cb(g, soc) == update_battery_icon(g, soc)

widget_event_listener(g, usb, ble) == update_connection_icon(g, usb, ble)

\* ZMK_LISTENER(widget, ..) and ZMK_DISPLAY_WIDGET_LISTENER(widget_battery_status,
\* ..) define the listeners "widget" and "widget_battery_status".
\* ZMK_SUBSCRIPTION: the (listener, event type) pairs the build registers;
\* the other two variants define no listener and subscribe to nothing
Subscriptions(v) ==
    IF v = "singleton" THEN {<<"widget", "zmk_usb_conn_state_changed">>} ELSE {}

\* the event manager hands a raised event to each listener subscribed to it
raise_event(v, ev, g, usb, ble, soc) ==
    LET g1 == IF <<"widget_battery_status", ev>> \in Subscriptions(v)
              THEN widget_battery_status_update_cb(g, soc) ELSE g
    IN  IF <<"widget", ev>> \in Subscriptions(v)
        THEN widget_event_listener(g1, usb, ble) ELSE g1

\* zmk_widget_status_init(parent), up to the four initial refreshes
status_init_globals(g, usb, ble, soc, uptime) ==
    LET t1 == lv_label_create(g.lv_text)
        g1 == SetText([g EXCEPT !.lv_text = t1, !.connection_icon = Len(t1)],
                      Len(t1), WIFI_ICON)
        t2 == lv_label_create(g1.lv_text)
        g2 == SetText([g1 EXCEPT !.lv_text = t2, !.date_label = Len(t2)],
                      Len(t2), DATE_TEXT)
        t3 == lv_label_create(g2.lv_text)
        g3 == SetText([g2 EXCEPT !.lv_text = t3, !.battery_icon = Len(t3)],
                      Len(t3), LV_SYMBOL_BATTERY_FULL)
        t4 == lv_label_create(g3.lv_text)
        g4 == SetText([g3 EXCEPT !.lv_text = t4, !.time_label = Len(t4)],
                      Len(t4), TIME_PLACEHOLDER)
    IN  update_time_display(
            update_battery_icon(
                update_date_display(
                    update_connection_icon(g4, usb, ble)), soc), uptime)

----------------------------------------------------------------------------
(* Variant "instance": unnamed/part_000, struct zmk_widget_status           *)

inst_update_connection_icon(g, icon, usb, ble) ==
    IF icon = NULL THEN g
    ELSE IF usb \/ ble THEN SetText(g, icon, WIFI_ICON)
    ELSE SetText(g, icon, NO_WIFI_ICON)

inst_update_time_display(g, label, uptime) ==
    IF label = NULL THEN g
    ELSE SetText(g, label, time_str(uptime))

inst_update_battery_icon(g, icon, soc) ==
    IF icon = NULL THEN g
    ELSE SetText(g, icon, battery_glyph(battery_level(soc)))

\* zmk_widget_status_init(widget, parent)
inst_status_init_globals(g, usb, ble, soc, uptime) ==
    LET t1 == lv_label_create(g.lv_text)
        g1 == SetText([g EXCEPT !.lv_text = t1, !.connection_icon = Len(t1)],
                      Len(t1), WIFI_ICON)
        t2 == lv_label_create(g1.lv_text)
        g2 == SetText([g1 EXCEPT !.lv_text = t2, !.date_label = Len(t2)],
                      Len(t2), DATE_TEXT)
        t3 == lv_label_create(g2.lv_text)
        g3 == SetText([g2 EXCEPT !.lv_text = t3, !.battery_icon = Len(t3)],
                      Len(t3), LV_SYMBOL_BATTERY_FULL)
        t4 == lv_label_create(g3.lv_text)
        g4 == SetText([g3 EXCEPT !.lv_text = t4, !.time_label = Len(t4)],
                      Len(t4), TIME_PLACEHOLDER)
        g5 == inst_update_connection_icon(g4, g4.connection_icon, usb, ble)
        g6 == inst_update_battery_icon(g5, g5.battery_icon, soc)
    IN  inst_update_time_display(g6, g6.time_label, uptime)

----------------------------------------------------------------------------
(* Variant "screen": unnamed/part_000, struct status_state                  *)

set_connection_status(g, usb, ble) ==
    IF g.connection_icon = NULL THEN g
    ELSE IF usb \/ ble THEN SetText(g, g.connection_icon, WIFI_ICON)
    ELSE SetText(g, g.connection_icon, NO_WIFI_ICON)

set_battery_status(g, soc) ==
    IF g.battery_icon = NULL THEN g
    ELSE SetText(g, g.battery_icon, battery_glyph(battery_level(soc)))

update_time(g, uptime) ==
    IF g.time_label = NULL THEN g
    ELSE SetText(g, g.time_label, time_str(uptime))

\* zmk_display_status_screen()
status_screen_globals(g, usb, ble, soc, uptime) ==
    LET t1 == lv_label_create(g.lv_text)
        g1 == [g EXCEPT !.lv_text = t1, !.connection_icon = Len(t1)]
        t2 == lv_label_create(g1.lv_text)
        g2 == SetText([g1 EXCEPT !.lv_text = t2, !.date_label = Len(t2)],
                      Len(t2), DATE_TEXT)
        t3 == lv_label_create(g2.lv_text)
        g3 == [g2 EXCEPT !.lv_text = t3, !.battery_icon = Len(t3)]
        t4 == lv_label_create(g3.lv_text)
        g4 == [g3 EXCEPT !.lv_text = t4, !.time_label = Len(t4)]
    IN  update_time(set_battery_status(set_connection_status(g4, usb, ble), soc), uptime)

----------------------------------------------------------------------------
(* Inputs *)

Variants == {"singleton", "instance", "screen"}

\* states of charge around every threshold, and values above 100
BatterySamples == {0, 15, 20, 21, 45, 60, 61, 80, 81, 100, 200}

DayMs == SECONDS_PER_DAY * MS_PER_SECOND

\* uptimes: the start, 1 h 1 min 1 s, and the last millisecond of a day
UptimeSamples ==
    {d * DayMs + o : d \in 0..MaxDays, o \in {0, 3661000, 86399999}}

\* uptimes around the one- and two-digit hours and minutes
ClockSamples ==
    {d * DayMs + h * 3600000 + m * 60000 + ms :
        d \in 0..MaxDays, h \in {0, 1, 9, 10, 23}, m \in {0, 1, 9, 10, 59},
        ms \in {0, 1000, 59999}}

RefreshOps == {"refresh_connection", "refresh_battery", "refresh_time"}

\* history: op has run (last_op and repeats are read by the properties only)
Did(op) ==
    /\ last_op' = op
    /\ repeats' = IF op \in RefreshOps /\ last_op = op THEN 1 ELSE 0

InitWith(Socs, Uptimes) ==
    /\ variant \in Variants
    /\ connection_icon = NULL
    /\ time_label = NULL
    /\ date_label = NULL
    /\ battery_icon = NULL
    /\ is_connected = FALSE
    /\ lv_text = <<>>
    /\ time_update_work = "uninit"
    /\ usb_powered \in BOOLEAN
    /\ ble_connected \in BOOLEAN
    /\ battery_soc \in Socs
    /\ uptime_ms \in Uptimes
    /\ last_op = "boot"
    /\ repeats = 0

----------------------------------------------------------------------------
(* Initialisation, one function per variant; the host builds the status    *)
(* screen once.                                                            *)

zmk_widget_status_init ==
    /\ variant = "singleton"
    /\ lv_text = <<>>
    /\ Commit(status_init_globals(Globals, usb_powered, ble_connected,
                                  battery_soc, uptime_ms))
    \* k_work_init_delayable, then k_work_schedule(.., K_SECONDS(1))
    /\ time_update_work' = k_work_schedule("idle")
    /\ Did("init")
    /\ UNCHANGED <<variant, env_vars>>

inst_zmk_widget_status_init ==
    /\ variant = "instance"
    /\ lv_text = <<>>
    /\ Commit(inst_status_init_globals(Globals, usb_powered, ble_connected,
                                       battery_soc, uptime_ms))
    /\ Did("init")
    /\ UNCHANGED <<variant, env_vars, time_update_work>>

zmk_display_status_screen ==
    /\ variant = "screen"
    /\ lv_text = <<>>
    /\ Commit(status_screen_globals(Globals, usb_powered, ble_connected,
                                    battery_soc, uptime_ms))
    /\ Did("init")
    /\ UNCHANGED <<variant, env_vars, time_update_work>>

----------------------------------------------------------------------------
(* The running system: host events and the work queue                      *)

\* USB power changes; the host raises zmk_usb_conn_state_changed
UsbConnStateChanged ==
    /\ usb_powered' = ~usb_powered
    /\ Commit(raise_event(variant, "zmk_usb_conn_state_changed", Globals,
                          usb_powered', ble_connected, battery_soc))
    /\ Did("usb_conn_state_changed")
    /\ UNCHANGED <<variant, ble_connected, battery_soc, uptime_ms, time_update_work>>

\* the active BLE profile connects or disconnects; the host raises
\* zmk_ble_active_profile_changed
BleActiveProfileChanged ==
    /\ ble_connected' = ~ble_connected
    /\ Commit(raise_event(variant, "zmk_ble_active_profile_changed", Globals,
                          usb_powered, ble_connected', battery_soc))
    /\ Did("ble_active_profile_changed")
    /\ UNCHANGED <<variant, usb_powered, battery_soc, uptime_ms, time_update_work>>

\* the state of charge changes; the host raises zmk_battery_state_changed
BatteryStateChanged ==
    /\ \E soc \in BatterySamples \ {battery_soc} :
          /\ battery_soc' = soc
          /\ Commit(raise_event(variant, "zmk_battery_state_changed", Globals,
                                usb_powered, ble_connected, soc))
    /\ Did("battery_state_changed")
    /\ UNCHANGED <<variant, usb_powered, ble_connected, uptime_ms, time_update_work>>

\* the delay of the work item runs out: the kernel queues it
WorkTimeout ==
    /\ time_update_work = "scheduled"
    /\ time_update_work' = "queued"
    /\ Did("work_timeout")
    /\ UNCHANGED <<variant, widget_vars, env_vars>>

\* the work queue runs the handler; k_work_schedule sees the item running
time_update_work_handler ==
    /\ time_update_work = "queued"
    /\ Commit(update_time_display(Globals, uptime_ms))
    /\ time_update_work' = k_work_schedule("running")
    /\ Did("time_update_work_handler")
    /\ UNCHANGED <<variant, env_vars>>

UptimeAdvances ==
    /\ \E t \in UptimeSamples : t > uptime_ms /\ uptime_ms' = t
    /\ Did("uptime")
    /\ UNCHANGED <<variant, widget_vars, usb_powered, ble_connected, battery_soc,
                   time_update_work>>

Init == InitWith(BatterySamples, {0})

Next ==
    \/ zmk_widget_status_init
    \/ inst_zmk_widget_status_init
    \/ zmk_display_status_screen
    \/ UsbConnStateChanged
    \/ BleActiveProfileChanged
    \/ BatteryStateChanged
    \/ WorkTimeout
    \/ time_update_work_handler
    \/ UptimeAdvances

Spec == Init /\ [][Next]_vars

----------------------------------------------------------------------------
(* The refresh functions called directly, in any state of the widget and   *)
(* for any state of the host                                               *)

refresh_connection(v, g, usb, ble) ==
    CASE v = "singleton" -> update_connection_icon(g, usb, ble)
      [] v = "instance"  -> inst_update_connection_icon(g, g.connection_icon, usb, ble)
      [] v = "screen"    -> set_connection_status(g, usb, ble)

refresh_battery(v, g, soc) ==
    CASE v = "singleton" -> update_battery_icon(g, soc)
      [] v = "instance"  -> inst_update_battery_icon(g, g.battery_icon, soc)
      [] v = "screen"    -> set_battery_status(g, soc)

refresh_time(v, g, uptime) ==
    CASE v = "singleton" -> update_time_display(g, uptime)
      [] v = "instance"  -> inst_update_time_display(g, g.time_label, uptime)
      [] v = "screen"    -> update_time(g, uptime)

RefreshConnection ==
    /\ Commit(refresh_connection(variant, Globals, usb_powered, ble_connected))
    /\ Did("refresh_connection")
    /\ UNCHANGED <<variant, env_vars, time_update_work>>

RefreshBattery ==
    /\ Commit(refresh_battery(variant, Globals, battery_soc))
    /\ Did("refresh_battery")
    /\ UNCHANGED <<variant, env_vars, time_update_work>>

RefreshTime ==
    /\ Commit(refresh_time(variant, Globals, uptime_ms))
    /\ Did("refresh_time")
    /\ UNCHANGED <<variant, env_vars, time_update_work>>

HostUsb ==
    /\ usb_powered' = ~usb_powered
    /\ Did("host")
    /\ UNCHANGED <<variant, widget_vars, ble_connected, battery_soc, uptime_ms,
                   time_update_work>>

HostBle ==
    /\ ble_connected' = ~ble_connected
    /\ Did("host")
    /\ UNCHANGED <<variant, widget_vars, usb_powered, battery_soc, uptime_ms,
                   time_update_work>>

HostBattery(Socs) ==
    /\ \E soc \in Socs \ {battery_soc} : battery_soc' = soc
    /\ Did("host")
    /\ UNCHANGED <<variant, widget_vars, usb_powered, ble_connected, uptime_ms,
                   time_update_work>>

HostUptime(Uptimes) ==
    /\ \E t \in Uptimes : t > uptime_ms /\ uptime_ms' = t
    /\ Did("host")
    /\ UNCHANGED <<variant, widget_vars, usb_powered, ble_connected, battery_soc,
                   time_update_work>>

WidgetInit ==
    \/ zmk_widget_status_init
    \/ inst_zmk_widget_status_init
    \/ zmk_display_status_screen

InitRefresh == InitWith(BatterySamples, UptimeSamples)

NextRefresh ==
    \/ WidgetInit
    \/ RefreshConnection
    \/ RefreshBattery
    \/ RefreshTime
    \/ HostUsb
    \/ HostBle
    \/ HostBattery(BatterySamples)
    \/ HostUptime(UptimeSamples)

SpecRefresh == InitRefresh /\ [][NextRefresh]_vars

\* the battery refresh over every value of a uint8_t
InitBattery == InitWith(0..UINT8_MAX, {0}) /\ ~usb_powered /\ ~ble_connected

NextBattery ==
    \/ WidgetInit
    \/ RefreshBattery
    \/ HostBattery({battery_soc - 1, battery_soc + 1} \cap (0..UINT8_MAX))

SpecBattery == InitBattery /\ [][NextBattery]_vars

\* the time refresh over the clock samples
InitTime == InitWith({100}, ClockSamples) /\ ~usb_powered /\ ~ble_connected

NextTime ==
    \/ WidgetInit
    \/ RefreshTime
    \/ HostUptime(ClockSamples)

SpecTime == InitTime /\ [][NextTime]_vars

----------------------------------------------------------------------------
(* What the claims speak of *)

Initialized == lv_text # <<>>

FiveGlyphs ==
    {LV_SYMBOL_BATTERY_FULL, LV_SYMBOL_BATTERY_3, LV_SYMBOL_BATTERY_2,
     LV_SYMBOL_BATTERY_1, LV_SYMBOL_BATTERY_EMPTY}

\* the table of the specification: percent range -> glyph
TableGlyph(p) ==
    CASE p > 80        -> LV_SYMBOL_BATTERY_FULL
      [] p \in 61..80  -> LV_SYMBOL_BATTERY_3
      [] p \in 41..60  -> LV_SYMBOL_BATTERY_2
      [] p \in 21..40  -> LV_SYMBOL_BATTERY_1
      [] p <= 20       -> LV_SYMBOL_BATTERY_EMPTY

Fullness(glyph) ==
    CASE glyph = LV_SYMBOL_BATTERY_FULL  -> 4
      [] glyph = LV_SYMBOL_BATTERY_3     -> 3
      [] glyph = LV_SYMBOL_BATTERY_2     -> 2
      [] glyph = LV_SYMBOL_BATTERY_1     -> 1
      [] glyph = LV_SYMBOL_BATTERY_EMPTY -> 0

Clamp100(p) == IF p < 0 THEN 0 ELSE IF p > 100 THEN 100 ELSE p

IsDigit(c) == \E d \in 0..9 : Digit(d) = c

DigitValue(c) == CHOOSE d \in 0..9 : Digit(d) = c

TwoDigits(t, i) == 10 * DigitValue(t[i]) + DigitValue(t[i + 1])

\* a battery refresh has just run on an existing battery icon
BatteryRefreshed ==
    last_op \in {"refresh_battery", "init"} /\ battery_icon # NULL

\* C1: for every battery percentage p in 0..100 the battery refresh writes
\* exactly one of the five glyphs, the one the strict greater-than table
\* gives (20, 40, 60, 80 in the lower bucket, 21, 41, 61, 81 in the upper
\* one), and the glyph it would write for p - 1 is never fuller.
C1_BatteryBuckets ==
    (BatteryRefreshed /\ battery_soc \in 0..100) =>
        LET glyph == lv_text[battery_icon]
        IN  /\ glyph \in FiveGlyphs
            /\ glyph = TableGlyph(battery_soc)
            /\ battery_soc \in {20, 40, 60, 80} =>
                  Fullness(glyph) = (battery_soc \div 20) - 1
            /\ battery_soc \in {21, 41, 61, 81} =>
                  Fullness(glyph) = battery_soc \div 20
            /\ battery_soc > 0 =>
                  Fullness(refresh_battery(variant, Globals, battery_soc - 1)
                               .lv_text[battery_icon]) <= Fullness(glyph)

C1_Witness ==
    /\ last_op = "refresh_battery"
    /\ battery_icon # NULL
    /\ battery_soc = 80
    /\ lv_text[battery_icon] = LV_SYMBOL_BATTERY_3

\* C4: for every value of a uint8_t the state-of-charge query can return,
\* the glyph the battery refresh writes is the glyph of the table for that
\* value clamped into 0..100.
C4_ClampedClassification ==
    (BatteryRefreshed /\ battery_soc \in 0..UINT8_MAX) =>
        lv_text[battery_icon] = TableGlyph(Clamp100(battery_soc))

C4_Witness ==
    /\ last_op = "refresh_battery"
    /\ battery_icon # NULL
    /\ battery_soc = 200
    /\ lv_text[battery_icon] = LV_SYMBOL_BATTERY_FULL

\* C2: after a connection refresh on an existing icon the icon shows the
\* connected glyph iff USB is powered or BLE is connected, the blank glyph
\* otherwise; the singleton variant's flag says the same, and its
\* if / else-if form writes what the single OR test of the other two writes.
C2_ConnectedIffUsbOrBle ==
    (last_op = "refresh_connection" /\ connection_icon # NULL) =>
        LET c == usb_powered \/ ble_connected
        IN  /\ (lv_text[connection_icon] = WIFI_ICON) <=> c
            /\ (lv_text[connection_icon] = NO_WIFI_ICON) <=> ~c
            /\ variant = "singleton" => is_connected = c
            /\ update_connection_icon(Globals, usb_powered, ble_connected).lv_text
                 = inst_update_connection_icon(Globals, connection_icon, usb_powered,
                                               ble_connected).lv_text
            /\ update_connection_icon(Globals, usb_powered, ble_connected).lv_text
                 = set_connection_status(Globals, usb_powered, ble_connected).lv_text

C2_Witness ==
    /\ last_op = "refresh_connection"
    /\ variant = "singleton"
    /\ connection_icon # NULL
    /\ ~usb_powered
    /\ ble_connected
    /\ lv_text[connection_icon] = WIFI_ICON
    /\ is_connected

\* C3: after a time refresh the clock text has exactly 5 characters, two
\* digits, a colon, two digits, with HH = (((ms / 1000) mod 86400) / 3600)
\* mod 24 in 0..23 and MM = (((ms / 1000) mod 86400) mod 3600) / 60 in
\* 0..59; 0 gives 00:00, 3661000 gives 01:01, 86399999 gives 23:59 and
\* 86400000 wraps to 00:00.
C3_ClockText ==
    (last_op \in {"refresh_time", "init"} /\ time_label # NULL /\ uptime_ms >= 0) =>
        LET t == lv_text[time_label]
            secs == (uptime_ms \div 1000) % 86400
        IN  /\ Len(t) = 5
            /\ t[3] = ":"
            /\ \A i \in {1, 2, 4, 5} : IsDigit(t[i])
            /\ TwoDigits(t, 1) = (secs \div 3600) % 24
            /\ TwoDigits(t, 4) = (secs % 3600) \div 60
            /\ TwoDigits(t, 1) \in 0..23
            /\ TwoDigits(t, 4) \in 0..59
            /\ uptime_ms = 0 => t = <<"0", "0", ":", "0", "0">>
            /\ uptime_ms = 3661000 => t = <<"0", "1", ":", "0", "1">>
            /\ uptime_ms = 86399999 => t = <<"2", "3", ":", "5", "9">>
            /\ uptime_ms = 86400000 => t = <<"0", "0", ":", "0", "0">>

C3_Witness ==
    /\ last_op = "refresh_time"
    /\ time_label # NULL
    /\ uptime_ms = 86400000
    /\ lv_text[time_label] = <<"0", "0", ":", "0", "0">>

\* C6: a refresh that runs while its handle is NULL writes no label text
\* and leaves the four handles and is_connected as they were, for the
\* connection, the battery and the time refresh alike.
C6_NullHandleNoOp ==
    [][ /\ (last_op' = "refresh_connection" /\ connection_icon = NULL)
            => UNCHANGED widget_vars
        /\ (last_op' = "refresh_battery" /\ battery_icon = NULL)
            => UNCHANGED widget_vars
        /\ (last_op' = "refresh_time" /\ time_label = NULL)
            => UNCHANGED widget_vars ]_vars

C6_Witness ==
    /\ last_op = "refresh_connection"
    /\ connection_icon = NULL
    /\ usb_powered
    /\ ~is_connected
    /\ lv_text = <<>>

\* the labels other than obj keep their texts, and no label appears
OnlyLabelChanges(obj) ==
    /\ Len(lv_text') = Len(lv_text)
    /\ \A h \in 1..Len(lv_text) : h # obj => lv_text'[h] = lv_text[h]

HandlesUnchanged ==
    UNCHANGED <<connection_icon, time_label, date_label, battery_icon>>

\* C7: each refresh changes only its own element: the battery refresh only
\* the battery icon's text, the time refresh only the clock text, the
\* connection refresh only the connection glyph and is_connected; at 45%
\* with BLE connected the refreshes show tier-2 and connected, and at 15%
\* a battery icon showing tier-2 beside a connected glyph becomes empty and
\* the connection glyph stays.
C7_RefreshFrame ==
    [][ /\ last_op' = "refresh_battery" =>
              /\ HandlesUnchanged
              /\ UNCHANGED is_connected
              /\ OnlyLabelChanges(battery_icon)
        /\ last_op' = "refresh_time" =>
              /\ HandlesUnchanged
              /\ UNCHANGED is_connected
              /\ OnlyLabelChanges(time_label)
        /\ last_op' = "refresh_connection" =>
              /\ HandlesUnchanged
              /\ OnlyLabelChanges(connection_icon)
        /\ ( /\ last_op' = "refresh_battery"
             /\ battery_icon # NULL
             /\ battery_soc = 45 ) =>
              lv_text'[battery_icon] = LV_SYMBOL_BATTERY_2
        /\ ( /\ last_op' = "refresh_connection"
             /\ connection_icon # NULL
             /\ ble_connected ) =>
              lv_text'[connection_icon] = WIFI_ICON
        /\ ( /\ last_op' = "refresh_battery"
             /\ battery_icon # NULL
             /\ battery_soc = 15
             /\ lv_text[battery_icon] = LV_SYMBOL_BATTERY_2
             /\ lv_text[connection_icon] = WIFI_ICON ) =>
              /\ lv_text'[battery_icon] = LV_SYMBOL_BATTERY_EMPTY
              /\ lv_text'[connection_icon] = WIFI_ICON ]_vars

C7_Witness ==
    /\ last_op = "refresh_battery"
    /\ battery_icon # NULL
    /\ battery_soc = 15
    /\ ble_connected
    /\ ~usb_powered
    /\ lv_text[battery_icon] = LV_SYMBOL_BATTERY_EMPTY
    /\ lv_text[connection_icon] = WIFI_ICON

\* C8: a refresh called again with nothing changed in between leaves the
\* displayed texts and the widget state as the first call left them.
C8_Idempotent ==
    [][ (last_op' \in RefreshOps /\ last_op = last_op')
            => UNCHANGED widget_vars ]_vars

C8_Witness ==
    /\ repeats = 1
    /\ last_op = "refresh_connection"
    /\ variant = "singleton"
    /\ connection_icon # NULL
    /\ is_connected
    /\ lv_text[connection_icon] = WIFI_ICON

\* C5: after zmk_widget_status_init the one-second tick is always pending
\* or running.
C5_TickAlwaysArmed ==
    (Initialized /\ variant \in {"singleton", "instance"}) =>
        time_update_work \in {"scheduled", "queued"}

\* C9: after initialisation, once a battery-state-changed event has been
\* handled the battery icon shows the glyph of the current state of charge.
C9_BatteryGlyphFresh ==
    (variant = "singleton" /\ Initialized /\ last_op = "battery_state_changed") =>
        lv_text[battery_icon] = TableGlyph(Clamp100(battery_soc))

\* C10: after initialisation, once a change of the USB power state or of
\* the BLE connection has been handled the connection glyph shows connected
\* iff USB is powered or BLE is connected, and is_connected says the same.
C10_ConnectionGlyphFresh ==
    ( /\ variant = "singleton"
      /\ Initialized
      /\ last_op \in {"usb_conn_state_changed", "ble_active_profile_changed"} ) =>
        /\ (lv_text[connection_icon] = WIFI_ICON) <=> (usb_powered \/ ble_connected)
        /\ is_connected = (usb_powered \/ ble_connected)

----------------------------------------------------------------------------
(* What does hold of the running system *)

\* in the singleton variant the tick is pending or queued from init on
TickArmedSingleton ==
    (Initialized /\ variant = "singleton") =>
        time_update_work \in {"scheduled", "queued"}

\* a USB event refreshes the connection glyph of the singleton variant
UsbEventRefreshes ==
    (variant = "singleton" /\ Initialized /\ last_op = "usb_conn_state_changed") =>
        /\ (lv_text[connection_icon] = WIFI_ICON) <=> (usb_powered \/ ble_connected)
        /\ is_connected = (usb_powered \/ ble_connected)

\* a USB event before initialisation changes nothing of the widget
UsbEventBeforeInit ==
    [][ (last_op' = "usb_conn_state_changed" /\ ~Initialized)
            => UNCHANGED widget_vars ]_vars

\* the work queue and fair scheduling of the timeout: the singleton
\* variant's time label is refreshed again and again
FairSpec ==
    Spec /\ WF_vars(WorkTimeout) /\ WF_vars(time_update_work_handler)

TickRecursSingleton ==
    (variant = "singleton" /\ Initialized) ~> (last_op = "time_update_work_handler")

====
